---- MODULE Spec2Model ----
(***************************************************************************)
(* Quota-aware request dispatch of the chat application:                   *)
(*   - RateLimiter (rate_limiter.py): per-key sliding window of admission  *)
(*     timestamps, is_allowed and get_retry_after;                         *)
(*   - GeminiClient.generate_content (gemini_client.py): classification of *)
(*     the external API's response into the text handed back;              *)
(*   - create_app.chat (app_alternative.py): one chat turn.                *)
(*                                                                         *)
(* time.time() is a float; the clock is modelled in ticks, TicksPerSecond  *)
(* ticks to the second, so that sub-second instants exist and int()'s      *)
(* truncation is visible.                                                  *)
(***************************************************************************)
EXTENDS Integers, Sequences, FiniteSets, TLC

\* ---------------------------------------------------------------- bounds
TicksPerSecond == 2
MaxTime == 6
MaxCalls == 4
MaxLimit == 2
MaxWindow == 2
NumThreads == 2
MaxConcTime == 3
MaxConcCalls == 3
MaxTurns == 2
MaxMsgLen == 2

Keys == {"default", "u1"}
DefaultKey == "default"

VARIABLES
    now,            \* time.time(), in ticks
    max_requests,   \* RateLimiter.max_requests
    time_window,    \* RateLimiter.time_window, in seconds
    requests,       \* RateLimiter.requests: key -> deque of admission timestamps
    calls,          \* history: per key, the is_allowed calls made (time, verdict)
    last,           \* history: the last limiter operation and what it returned
    pc,             \* per thread: where its is_allowed call stands
    tkey,           \* per thread: is_allowed's key
    tnow,           \* per thread: is_allowed's local now
    gemini_client,  \* app.gemini_client is not None
    db_connection,  \* db.connection is not None
    api_calls,      \* number of GeminiClient.generate_content invocations
    handed,         \* the (user_message, ai_response) pairs passed to db.save_message
    turn            \* the last chat turn: what came in, what went back

limVars == <<now, max_requests, time_window, requests, calls, last>>
concVars == <<pc, tkey, tnow>>
chatVars == <<gemini_client, db_connection, api_calls, handed, turn>>
vars == <<limVars, concVars, chatVars>>

\* ------------------------------------------------------- rate_limiter.py

\* self.time_window seconds, in ticks
WindowTicks == time_window * TicksPerSecond

\* python int(): truncation toward zero of ticks / TicksPerSecond
PyInt(ticks) ==
    IF ticks >= 0 THEN ticks \div TicksPerSecond
    ELSE -((-ticks) \div TicksPerSecond)

Max(a, b) == IF a >= b THEN a ELSE b

\* while request_times and request_times[0] <= now - self.time_window: popleft()
RECURSIVE Purge(_, _)
PurgeKeepsAll(q, cutoff) == q
PurgeEager(q, cutoff) ==
    IF q # <<>> /\ Head(q) <= cutoff + 1 THEN Purge(Tail(q), cutoff) ELSE q
Purge(q, cutoff) ==
    IF q # <<>> /\ Head(q) <= cutoff THEN Purge(Tail(q), cutoff) ELSE q

\* if len(request_times) < self.max_requests
HasRoomOffByOne(q) == Len(q) <= max_requests
HasRoom(q) == Len(q) < max_requests

\* get_retry_after's value for the deque q read at clock t
RetryAfter(q, t) ==
    IF q = <<>> THEN 0
    ELSE Max(0, PyInt(WindowTicks - (t - Head(q))))

NoOp == [op |-> "none", key |-> DefaultKey, at |-> 0, result |-> 0]

TotalCalls == Len(calls["default"]) + Len(calls["u1"])

\* RateLimiter(max_requests, time_window)
InitLimiter ==
    /\ now = 0
    /\ max_requests \in 1..MaxLimit
    /\ time_window \in 1..MaxWindow
    /\ requests = [k \in Keys |-> <<>>]
    /\ calls = [k \in Keys |-> <<>>]
    /\ last = NoOp

\* the clock moves on between calls
AdvanceClock ==
    /\ now < MaxTime
    /\ now' = now + 1
    /\ UNCHANGED <<max_requests, time_window, requests, calls, last>>
    /\ UNCHANGED <<concVars, chatVars>>

\* RateLimiter.is_allowed(key)
IsAllowed(k) ==
    /\ TotalCalls < MaxCalls
    /\ LET q == Purge(requests[k], now - WindowTicks)
           ok == HasRoom(q)
       IN /\ requests' = [requests EXCEPT ![k] = IF ok THEN Append(q, now) ELSE q]
          /\ calls' = [calls EXCEPT ![k] = Append(@, [at |-> now, admit |-> ok])]
          /\ last' = [op |-> "is_allowed", key |-> k, at |-> now,
                      result |-> IF ok THEN 1 ELSE 0]
    /\ UNCHANGED <<now, max_requests, time_window>>
    /\ UNCHANGED <<concVars, chatVars>>

\* RateLimiter.get_retry_after(key)
GetRetryAfter(k) ==
    /\ last' = [op |-> "get_retry_after", key |-> k, at |-> now,
                result |-> RetryAfter(requests[k], now)]
    /\ UNCHANGED <<now, max_requests, time_window, requests, calls>>
    /\ UNCHANGED <<concVars, chatVars>>

Threads == 1..NumThreads

\* no is_allowed call is in progress
InitThreads ==
    /\ pc = [t \in Threads |-> "idle"]
    /\ tkey = [t \in Threads |-> DefaultKey]
    /\ tnow = [t \in Threads |-> 0]

\* python None, as a value no text equals
None == "<None>"

\* request.get_json() of a request that is yet to come
NoBody == [kind |-> "none", message |-> <<>>]

NoTurn ==
    [n |-> 0, status |-> 0, body |-> NoBody, user_message |-> <<>>,
     prompt |-> <<>>, called |-> FALSE, api |-> "none", answered |-> FALSE,
     answer |-> None, save |-> "none", reply_user_message |-> <<>>,
     reply_ai_response |-> None, error |-> ""]

\* no chat turn taken; the application has its client and its database
InitChatFixed ==
    /\ gemini_client = TRUE
    /\ db_connection = TRUE
    /\ api_calls = 0
    /\ handed = <<>>
    /\ turn = NoTurn

\* one caller at a time: no is_allowed call is in progress, no chat turn taken
Init ==
    /\ InitLimiter
    /\ InitThreads
    /\ InitChatFixed

Next ==
    \/ AdvanceClock
    \/ \E k \in Keys : IsAllowed(k)
    \/ \E k \in Keys : GetRetryAfter(k)

Spec == Init /\ [][Next]_vars

\* ------------------------------------------------- claims on the limiter

\* the admissions of key k with a timestamp in the half-open interval (a, b]
AdmitsIn(k, a, b) ==
    {i \in DOMAIN calls[k] : calls[k][i].admit /\ a < calls[k][i].at /\ calls[k][i].at <= b}

AdmitCount(k) == Cardinality({i \in DOMAIN calls[k] : calls[k][i].admit})
DenyCount(k) == Cardinality({i \in DOMAIN calls[k] : ~calls[k][i].admit})

\* C1: for every key, the checks that returned Admit with a timestamp inside
\* any interval of width window_seconds number at most max_requests. The
\* window is the one the purge defines: a timestamp t is out of the window
\* read at now once t <= now - window_seconds, so the interval is (a, a + W].
C1_WindowBound ==
    \A k \in Keys : \A a \in (0 - WindowTicks)..MaxTime :
        Cardinality(AdmitsIn(k, a, a + WindowTicks)) <= max_requests

\* a key that was admitted more than max_requests times in all (so over more
\* than one window) and denied in between
C1_Witness ==
    \E k \in Keys : AdmitCount(k) > max_requests /\ DenyCount(k) > 0

\* C2: for a key with no prior admissions, of max_requests + 1 checks issued
\* within less than window_seconds of each other the first max_requests are
\* admitted, the last is denied, and get_retry_after read at the denial is > 0.
C2_BurstThenDeny ==
    \A k \in Keys :
        LET c == calls[k] IN
        (Len(c) = max_requests + 1 /\ c[Len(c)].at - c[1].at < WindowTicks)
        => /\ \A i \in 1..max_requests : c[i].admit
           /\ ~c[max_requests + 1].admit
           /\ (last.op = "get_retry_after" /\ last.key = k /\ last.at = c[Len(c)].at)
              => last.result > 0

\* C3: a check denied at time t is followed, when the next check for the key
\* comes strictly later than t + window_seconds, by an admitted check.
C3_AdmitAfterWindow ==
    \A k \in Keys : \A i \in 1..(Len(calls[k]) - 1) :
        (~calls[k][i].admit /\ calls[k][i + 1].at > calls[k][i].at + WindowTicks)
        => calls[k][i + 1].admit

C3_Witness ==
    \E k \in Keys : \E i \in 1..(Len(calls[k]) - 1) :
        /\ ~calls[k][i].admit
        /\ calls[k][i + 1].at > calls[k][i].at + WindowTicks
        /\ calls[k][i + 1].admit

\* C4: retry_after is >= 0; while the oldest timestamp is inside the window it
\* strictly decreases as time advances; it is 0 exactly from the instant the
\* oldest timestamp ages out (now - oldest = window_seconds), not earlier.
C4_RetryAfterExact ==
    (last.op = "get_retry_after" /\ requests[last.key] # <<>>)
    => LET q == requests[last.key]
           inside == {t \in Head(q)..MaxTime : t - Head(q) <= WindowTicks}
       IN /\ last.result >= 0
          /\ (last.result = 0) <=> (last.at - Head(q) >= WindowTicks)
          /\ \A t1, t2 \in inside : t1 < t2 => RetryAfter(q, t1) > RetryAfter(q, t2)

\* the step is a check of key k
Checked(k) == Len(calls'[k]) = Len(calls[k]) + 1

\* is_allowed's verdict on the deque q at clock t, as a caller would see it
WouldAdmit(q, t) == HasRoom(Purge(q, t - WindowTicks))

\* C5: a check of key k leaves every other key's window, and so its future
\* verdicts, unchanged; k's window loses only aged-out timestamps from its
\* front and gains now exactly when the verdict is Admit.
C5_Frame ==
    [][\A k \in Keys : Checked(k) =>
        LET verdict == calls'[k][Len(calls'[k])].admit
            after == requests'[k]
            kept == IF verdict THEN SubSeq(after, 1, Len(after) - 1) ELSE after
        IN /\ \A j \in Keys \ {k} :
                /\ requests'[j] = requests[j]
                /\ \A t \in now..MaxTime :
                       WouldAdmit(requests'[j], t) = WouldAdmit(requests[j], t)
           /\ verdict => (after # <<>> /\ after[Len(after)] = now)
           /\ \E n \in 0..Len(requests[k]) :
                /\ kept = SubSeq(requests[k], n + 1, Len(requests[k]))
                /\ \A i \in 1..n : requests[k][i] <= now - WindowTicks
           /\ UNCHANGED <<now, max_requests, time_window>>
      ]_vars

\* a denied check of a key whose window has lost timestamps to the purge,
\* while the other key's window holds timestamps
C5_Witness ==
    /\ last.op = "is_allowed" /\ last.result = 0
    /\ Len(requests[last.key]) < AdmitCount(last.key)
    /\ \E j \in Keys \ {last.key} : requests[j] # <<>>

\* ------------------------------------- is_allowed under concurrent callers
\* The application serves requests on threads; RateLimiter holds no lock, so
\* the statements of two is_allowed calls interleave. Each action below is one
\* statement of is_allowed (lines 34-46), run by thread t.

InFlight == Cardinality({t \in Threads : pc[t] # "idle"})

\* now = time.time(); request_times = self.requests[key]
Enter(t, k) ==
    /\ pc[t] = "idle"
    /\ TotalCalls + InFlight < MaxConcCalls
    /\ pc' = [pc EXCEPT ![t] = "loop"]
    /\ tkey' = [tkey EXCEPT ![t] = k]
    /\ tnow' = [tnow EXCEPT ![t] = now]
    /\ UNCHANGED <<limVars, chatVars>>

\* while request_times and request_times[0] <= now - self.time_window:
LoopTest(t) ==
    /\ pc[t] = "loop"
    /\ LET q == requests[tkey[t]]
       IN pc' = [pc EXCEPT ![t] =
                    IF q # <<>> /\ Head(q) <= tnow[t] - WindowTicks
                    THEN "pop" ELSE "test"]
    /\ UNCHANGED <<tkey, tnow, limVars, chatVars>>

\* request_times.popleft(): IndexError on a deque another thread has emptied
PopLeft(t) ==
    /\ pc[t] = "pop"
    /\ IF requests[tkey[t]] = <<>>
       THEN /\ pc' = [pc EXCEPT ![t] = "idle"]
            /\ last' = [op |-> "is_allowed", key |-> tkey[t], at |-> tnow[t],
                        result |-> -1]
            /\ UNCHANGED requests
       ELSE /\ pc' = [pc EXCEPT ![t] = "loop"]
            /\ requests' = [requests EXCEPT ![tkey[t]] = Tail(@)]
            /\ UNCHANGED last
    /\ UNCHANGED <<now, max_requests, time_window, calls, tkey, tnow, chatVars>>

\* if len(request_times) < self.max_requests: ... else return False
LenTest(t) ==
    /\ pc[t] = "test"
    /\ IF HasRoom(requests[tkey[t]])
       THEN /\ pc' = [pc EXCEPT ![t] = "append"]
            /\ UNCHANGED <<calls, last>>
       ELSE /\ pc' = [pc EXCEPT ![t] = "idle"]
            /\ calls' = [calls EXCEPT ![tkey[t]] =
                            Append(@, [at |-> tnow[t], admit |-> FALSE])]
            /\ last' = [op |-> "is_allowed", key |-> tkey[t], at |-> tnow[t],
                        result |-> 0]
    /\ UNCHANGED <<now, max_requests, time_window, requests, tkey, tnow, chatVars>>

\* request_times.append(now); return True
AppendNow(t) ==
    /\ pc[t] = "append"
    /\ pc' = [pc EXCEPT ![t] = "idle"]
    /\ requests' = [requests EXCEPT ![tkey[t]] = Append(@, tnow[t])]
    /\ calls' = [calls EXCEPT ![tkey[t]] = Append(@, [at |-> tnow[t], admit |-> TRUE])]
    /\ last' = [op |-> "is_allowed", key |-> tkey[t], at |-> tnow[t], result |-> 1]
    /\ UNCHANGED <<now, max_requests, time_window, tkey, tnow, chatVars>>

NextConc ==
    \/ (now < MaxConcTime /\ AdvanceClock)
    \/ \E t \in Threads : \E k \in Keys : Enter(t, k)
    \/ \E t \in Threads : LoopTest(t)
    \/ \E t \in Threads : PopLeft(t)
    \/ \E t \in Threads : LenTest(t)
    \/ \E t \in Threads : AppendNow(t)

SpecConc == Init /\ [][NextConc]_vars

\* C10: under concurrent calls for one key each call's purge / count-test /
\* append takes effect as one atomic unit, so no two calls pass the count test
\* on the same window state and no key's window ever records more than
\* max_requests admissions.
C10_AtomicCheck ==
    \A k \in Keys : Len(requests[k]) <= max_requests

\* ------------------------------------------------------ gemini_client.py

QuotaText == "I'm sorry, I've reached my daily limit. Please try again later."
ApiErrorText == "I'm sorry, I'm having trouble processing your request right now."
ConnectText == "I'm sorry, I'm having trouble connecting to the AI service."
UnexpectedText == "I'm sorry, something went wrong. Please try again."

GeneratedText == "Hello! How can I help you today?"

\* a 200 body with one candidate holding the parts given
WithParts(parts) == [candidates |-> <<[content |-> [parts |-> parts]]>>]

\* what requests.post(url, ..., timeout=30) can come back with
ApiResults ==
    {"ok_text", "ok_empty_text", "no_candidates", "empty_candidates", "no_content",
     "no_parts", "empty_parts", "no_text", "bad_json", "quota", "server_error",
     "timeout"}

Response(r) ==
    LET ok(data) == [raised |-> FALSE, status_code |-> 200, parses |-> TRUE, json |-> data]
        err == [error |-> [message |-> "x"]]
    IN CASE r = "ok_text" -> ok(WithParts(<<[text |-> GeneratedText]>>))
         [] r = "ok_empty_text" -> ok(WithParts(<<[text |-> ""]>>))
         [] r = "no_candidates" -> ok([promptFeedback |-> "blocked"])
         [] r = "empty_candidates" -> ok([candidates |-> <<>>])
         [] r = "no_content" -> ok([candidates |-> <<[finishReason |-> "SAFETY"]>>])
         [] r = "no_parts" -> ok([candidates |-> <<[content |-> [role |-> "model"]]>>])
         [] r = "empty_parts" -> ok(WithParts(<<>>))
         [] r = "no_text" -> ok(WithParts(<<[inlineData |-> "x"]>>))
         [] r = "bad_json" ->
                [raised |-> FALSE, status_code |-> 200, parses |-> FALSE, json |-> err]
         [] r = "quota" ->
                [raised |-> FALSE, status_code |-> 429, parses |-> TRUE, json |-> err]
         [] r = "server_error" ->
                [raised |-> FALSE, status_code |-> 500, parses |-> TRUE, json |-> err]
         [] r = "timeout" ->
                [raised |-> TRUE, status_code |-> 0, parses |-> FALSE, json |-> err]

\* GeminiClient.generate_content: the values it can return for the response.
\* response.json() on a body that is no JSON raises an error that one or the
\* other except clause catches, by the version of requests installed. The
\* status-200 branch returns only from its innermost if: every other way out
\* of it falls off the end of the function, which returns None.
GenerateContent(resp) ==
    IF resp.raised THEN {ConnectText}
    ELSE IF resp.status_code = 200 THEN
        IF ~resp.parses THEN {ConnectText, UnexpectedText}
        ELSE LET data == resp.json IN
            IF "candidates" \in DOMAIN data /\ Len(data.candidates) > 0
            THEN LET candidate == data.candidates[1] IN
                IF "content" \in DOMAIN candidate /\ "parts" \in DOMAIN candidate.content
                THEN LET parts == candidate.content.parts IN
                    IF Len(parts) = 0 THEN {UnexpectedText}
                    ELSE IF "text" \notin DOMAIN parts[1] THEN {UnexpectedText}
                    ELSE {parts[1].text}
                ELSE {None}
            ELSE {None}
    ELSE IF resp.status_code = 429 THEN {QuotaText}
    ELSE {ApiErrorText}

\* --------------------------------------------------- app_alternative.py

Chars == {" ", "a"}
Whitespace == {" "}
Messages == UNION {[1..n -> Chars] : n \in 0..MaxMsgLen}

\* request.get_json(): no JSON body, an object without 'message', an object
\* whose 'message' is null (or any other non-string), or one whose 'message'
\* is a string
RequestBodies ==
    {[kind |-> "nojson", message |-> <<>>],
     [kind |-> "missing", message |-> <<>>],
     [kind |-> "null", message |-> <<>>]}
    \cup {[kind |-> "str", message |-> m] : m \in Messages}

\* str.strip()
RECURSIVE StripLeft(_)
StripLeft(s) == IF s # <<>> /\ Head(s) \in Whitespace THEN StripLeft(Tail(s)) ELSE s
RECURSIVE StripRight(_)
StripRight(s) ==
    IF s # <<>> /\ s[Len(s)] \in Whitespace
    THEN StripRight(SubSeq(s, 1, Len(s) - 1)) ELSE s
StripNothing(s) == s
Strip(s) == StripRight(StripLeft(s))

\* the f-string around the user's message
Prompt(user_message) ==
    <<"You are a helpful AI assistant. Please respond to the following message in a friendly and informative way:\n\nUser: ">>
    \o user_message
    \o <<"\n\nPlease keep your response concise and helpful.">>

NoClientText == "AI service is not available. Please check the API key configuration."

\* the pair handed to db.save_message
Exchange(user_message, ai_response) == <<user_message, ai_response>>

\* what the handler returns once the answer is there and the save was tried:
\* the except around db.save_message swallows its failure
ReplyLosesAnswer(t, save) ==
    IF save = "raise"
    THEN [t EXCEPT !.status = 500, !.error = "Internal server error"]
    ELSE [t EXCEPT !.status = 200, !.reply_user_message = t.user_message,
                   !.reply_ai_response = t.answer]
Reply(t, save) ==
    [t EXCEPT !.status = 200, !.reply_user_message = t.user_message,
              !.reply_ai_response = t.answer]

\* create_app.chat: POST /api/chat with the body given. generate_content
\* catches every Exception itself, so the handler's own except around it
\* (lines 66-68) has nothing to catch. db.save_message succeeds or raises.
Chat(body) ==
    /\ turn.n < MaxTurns
    /\ LET t0 == [NoTurn EXCEPT !.n = turn.n + 1, !.body = body] IN
       IF body.kind \in {"nojson", "null"}
       THEN \* data.get / .strip() raise: the outer except answers 500
            /\ turn' = [t0 EXCEPT !.status = 500, !.error = "Internal server error"]
            /\ UNCHANGED <<api_calls, handed>>
       ELSE LET user_message == Strip(body.message) IN
            IF user_message = <<>>
            THEN /\ turn' = [t0 EXCEPT !.status = 400, !.error = "Message cannot be empty"]
                 /\ UNCHANGED <<api_calls, handed>>
            ELSE \E r \in (IF gemini_client THEN ApiResults ELSE {"none"}) :
                 \E ai_response \in (IF gemini_client THEN GenerateContent(Response(r))
                                     ELSE {NoClientText}) :
                 \E save \in (IF db_connection THEN {"ok", "raise"} ELSE {"skipped"}) :
                    /\ api_calls' = IF gemini_client THEN api_calls + 1 ELSE api_calls
                    /\ handed' = IF db_connection
                                 THEN Append(handed, Exchange(user_message, ai_response))
                                 ELSE handed
                    /\ turn' = Reply([t0 EXCEPT !.user_message = user_message,
                                                !.prompt = IF gemini_client
                                                           THEN Prompt(user_message) ELSE <<>>,
                                                !.called = gemini_client,
                                                !.api = r,
                                                !.answered = TRUE,
                                                !.answer = ai_response,
                                                !.save = save], save)
    /\ UNCHANGED <<gemini_client, db_connection, limVars, concVars>>

\* create_app(): with or without GEMINI_API_KEY, with or without a database
InitApp ==
    /\ gemini_client \in BOOLEAN
    /\ db_connection \in BOOLEAN
    /\ api_calls = 0
    /\ handed = <<>>
    /\ turn = NoTurn

\* rate_limiter = RateLimiter(max_requests=5, time_window=60)
GlobalMaxRequests == 5
GlobalTimeWindow == 60

\* the application next to the process-wide limiter as the module builds it
InitChat ==
    /\ now = 0
    /\ max_requests = GlobalMaxRequests
    /\ time_window = GlobalTimeWindow
    /\ requests = [k \in Keys |-> <<>>]
    /\ calls = [k \in Keys |-> <<>>]
    /\ last = NoOp
    /\ InitThreads
    /\ InitApp

NextChat == \E body \in RequestBodies : Chat(body)

\* the chat turns of the application
SpecChat == InitChat /\ [][NextChat]_vars

\* the application next to a limiter of any configuration
InitGate ==
    /\ InitLimiter
    /\ InitThreads
    /\ InitApp

\* chat turns, and checks of the limiter for the default key by its callers
NextGate ==
    \/ \E body \in RequestBodies : Chat(body)
    \/ IsAllowed(DefaultKey)

SpecGate == InitGate /\ [][NextGate]_vars

\* ------------------------------------------------ claims on the chat turn

\* the step is a chat turn
Turned == turn'.n = turn.n + 1

\* C6: in every chat turn the admission check for the caller's key comes
\* before the external API call, and a turn whose admission verdict is Deny
\* returns without invoking the external API client.
C6_AdmissionBeforeCall ==
    [][Turned =>
        /\ (api_calls' > api_calls) =>
              (Checked(DefaultKey) /\ calls'[DefaultKey][Len(calls'[DefaultKey])].admit)
        /\ ~WouldAdmit(requests[DefaultKey], now) => api_calls' = api_calls
      ]_vars

\* the five result types of the external call the classification is stated for
SuccessWithText == {"ok_text"}
QuotaStatus == {"quota"}
OtherErrorStatus == {"server_error"}
ConnectionFailure == {"timeout"}
MissingTextField ==
    {"no_candidates", "empty_candidates", "no_content", "no_parts", "empty_parts",
     "no_text"}

\* C7: for each result type of the external call (success with text, quota
\* status, other error status, connection/timeout failure, success status
\* with the generated-text field missing) the turn yields that type's outcome,
\* and the text returned is a non-empty string, never None.
C7_TotalClassification ==
    (turn.called /\ turn.api \in SuccessWithText \cup QuotaStatus \cup OtherErrorStatus
                                  \cup ConnectionFailure \cup MissingTextField)
    => /\ turn.status = 200
       /\ turn.reply_ai_response # None
       /\ turn.reply_ai_response # ""
       /\ turn.api \in SuccessWithText => turn.reply_ai_response = GeneratedText
       /\ turn.api \in QuotaStatus => turn.reply_ai_response = QuotaText
       /\ turn.api \in OtherErrorStatus => turn.reply_ai_response = ApiErrorText
       /\ turn.api \in ConnectionFailure => turn.reply_ai_response = ConnectText
       /\ turn.api \in MissingTextField =>
              turn.reply_ai_response \notin {GeneratedText, QuotaText}

\* the turn's exchange went to the sink, and the caller got the answer computed
ExchangeHandedAndAnswerKept ==
    /\ handed' = Append(handed, <<turn'.user_message, turn'.reply_ai_response>>)
    /\ turn'.status = 200
    /\ turn'.reply_ai_response = turn'.answer
    /\ turn'.reply_user_message = turn'.user_message

\* C8 as stated: every chat turn that reaches an answer (real or fallback)
\* hands an exchange with the message and exactly the text returned to the
\* persistence sink, and a failure of the hand-off leaves the text returned
\* unchanged.
C8_ExchangeAlwaysHanded ==
    [][(Turned /\ turn'.answered) => ExchangeHandedAndAnswerKept]_vars

\* C8 amended: the same for every chat turn that reaches an answer while the
\* database connection is present; without one nothing is handed over.
C8_ExchangeHandedWhenConnected ==
    [][(Turned /\ turn'.answered) =>
        /\ db_connection => ExchangeHandedAndAnswerKept
        /\ ~db_connection => (handed' = handed /\ turn'.status = 200
                              /\ turn'.reply_ai_response = turn'.answer)
      ]_vars

\* a turn answered with the quota fallback whose save failed: the exchange was
\* handed over with that text and the caller got it with status 200
C8_Witness ==
    /\ db_connection /\ turn.answered /\ turn.api = "quota" /\ turn.save = "raise"
    /\ handed # <<>> /\ handed[Len(handed)] = <<turn.user_message, QuotaText>>
    /\ turn.status = 200 /\ turn.reply_ai_response = QuotaText

\* the message field is missing, empty, or only whitespace
Blank(body) ==
    \/ body.kind = "missing"
    \/ body.kind = "str" /\ \A i \in DOMAIN body.message : body.message[i] \in Whitespace

\* C9: a chat request whose message field is missing, empty or only whitespace
\* is answered 400 with an error, and for it neither the external API client
\* is invoked nor an exchange persisted.
C9_BlankRejected ==
    [][(Turned /\ Blank(turn'.body)) =>
        /\ turn'.status = 400
        /\ turn'.error # ""
        /\ ~turn'.called /\ api_calls' = api_calls
        /\ handed' = handed
      ]_vars

\* a whitespace-only message rejected after an earlier turn had called the
\* client and persisted its exchange
C9_Witness ==
    /\ turn.status = 400 /\ turn.body.kind = "str" /\ turn.body.message # <<>>
    /\ Blank(turn.body)
    /\ api_calls = 1 /\ Len(handed) = 1

\* --------------------------------------- claims on the window and the hint

\* oldest first
Sorted(q) == \A i \in 1..(Len(q) - 1) : q[i] <= q[i + 1]

\* every timestamp of q is inside the window read at clock t
AllInside(q, t) == \A i \in DOMAIN q : q[i] > t - WindowTicks

\* C11: in every reachable state every key's window is sorted ascending and
\* no longer than max_requests, and every timestamp a read of the window uses
\* (is_allowed's count, get_retry_after's oldest) is inside the window at the
\* moment of the read: timestamp > now - window_seconds.
C11_WindowInvariant ==
    /\ \A k \in Keys : Sorted(requests[k]) /\ Len(requests[k]) <= max_requests
    /\ (last.op = "is_allowed" /\ last.result >= 0)
       => AllInside(requests[last.key], last.at)
    /\ (last.op = "get_retry_after" /\ requests[last.key] # <<>>)
       => Head(requests[last.key]) > last.at - WindowTicks

\* C12: when a check of a key is denied and get_retry_after then reports r,
\* with no check of the key in between, a check of the key made r seconds or
\* more after the hint was read is admitted.
C12_HintSufficient ==
    [][\A k \in Keys :
        (/\ Checked(k)
         /\ last.op = "get_retry_after" /\ last.key = k
         /\ calls[k] # <<>> /\ ~calls[k][Len(calls[k])].admit
         /\ calls[k][Len(calls[k])].at <= last.at
         /\ now >= last.at + last.result * TicksPerSecond)
        => calls'[k][Len(calls'[k])].admit
      ]_vars

====
